---- MODULE Spec2Model ----
(***************************************************************************)
(* Model of the statics service's request pipeline                        *)
(* (src/src/controller/mod.rs, src/src/lib.rs).                            *)
(*                                                                         *)
(* Each request slot follows ControllerImpl::call: routing, verify_token,  *)
(* read_bytes, multipart decomposition, image::guess_format, the store     *)
(* adapter's upload_image, and the assembly of the JSON answer.  The steps *)
(* of one request are separated at the points where its future can be      *)
(* suspended, and steps of different requests interleave freely.           *)
(***************************************************************************)
EXTENDS Integers, Sequences, FiniteSets, TLC

\* ------------------------------------------------------------------ bounds
MaxParts == 2      \* multipart parts in one request body
Now == 2           \* the wall clock, in seconds, when tokens are verified
Leeway == 1        \* config.jwt.leeway, seconds

MaxContexts == 2   \* contexts in an error chain
MaxExp == 4        \* exp of a token, seconds
MaxClock == 4      \* wall clock, seconds
MaxLeeway == 2     \* leeway, seconds

\* config.server.acao
Acao == "https://storiqa.example"

\* Two connections, whose requests may overlap in time.
Requests == {1, 2}

\* ------------------------------------------------------------------ bytes
\* Leading signatures image::guess_format looks for (a subset of its table).
PNG_MAGIC == <<137, 80, 78, 71, 13, 10, 26, 10>>
JPEG_MAGIC == <<255, 216, 255>>
GIF_MAGIC == <<71, 73, 70, 56, 57, 97>>

\* Payloads a client may put in a part: two images and the text "hello".
PngA == PNG_MAGIC \o <<1>>
JpegA == JPEG_MAGIC \o <<2>>
Hello == <<104, 101, 108, 108, 111>>
PartPool == {PngA, JpegA, Hello}

\* Framing of a multipart body: the delimiter line that opens a part and
\* the closing delimiter.  Neither value is a byte, so no payload holds one.
DELIM == -1
CLOSE == -2

IsPrefix(p, s) == Len(p) <= Len(s) /\ SubSeq(s, 1, Len(p)) = p

RECURSIVE SeqsUpTo(_, _)
SeqsUpTo(S, n) ==
    IF n = 0 THEN {<<>>}
    ELSE LET shorter == SeqsUpTo(S, n - 1)
         IN shorter \cup {Append(s, x) : s \in {t \in shorter : Len(t) = n - 1}, x \in S}

\* What a client writes on the wire for a list of parts.
RECURSIVE Encode(_)
Encode(parts) ==
    IF parts = <<>> THEN <<CLOSE>>
    ELSE <<DELIM>> \o Head(parts) \o Encode(Tail(parts))

\* Bodies a client may send: well-formed encodings, an encoding cut off
\* before its closing delimiter, raw bytes without any framing, nothing.
WellFormedBodies ==
    {[sent |-> ps, wire |-> Encode(ps), framed |-> TRUE] : ps \in SeqsUpTo(PartPool, MaxParts)}
BrokenBodies ==
    { [sent |-> <<>>, wire |-> <<DELIM>> \o PngA, framed |-> FALSE],
      [sent |-> <<>>, wire |-> Hello, framed |-> FALSE],
      [sent |-> <<>>, wire |-> <<>>, framed |-> FALSE] }
Bodies == WellFormedBodies \cup BrokenBodies

\* Ways hyper may cut a body into chunks.
Chunkings(wire) ==
    {<<wire>>} \cup {<<SubSeq(wire, 1, k), SubSeq(wire, k + 1, Len(wire))>> : k \in 1..(Len(wire) - 1)}

\* ------------------------------------------------------------------ errors
\* A failure::Error is a chain of contexts, the outermost first.  The
\* entries that are kinds of errors::Error carry an HTTP status.
ErrorKinds == {"NotFound", "Parse", "Image", "Unauthorized", "Network", "Internal"}

ErrorStatus(kind) ==
    CASE kind = "NotFound" -> 404
      [] kind = "Unauthorized" -> 401
      [] kind = "Parse" -> 400
      [] kind = "Image" -> 400
      [] kind = "Network" -> 502
      [] OTHER -> 500

\* ErrorMessageWrapper::from(&err): the first cause of the chain that is an
\* errors::Error decides the code; a chain without one is a 500.
RECURSIVE ErrorCode(_)
ErrorCode(chain) ==
    IF chain = <<>> THEN 500
    ELSE IF Head(chain) \in ErrorKinds THEN ErrorStatus(Head(chain))
    ELSE ErrorCode(Tail(chain))

Ok(v) == [ok |-> TRUE, value |-> v, err |-> <<>>]
Err(chain) == [ok |-> FALSE, value |-> <<>>, err |-> chain]

\* ------------------------------------------------------------------ routing
Methods == {"GET", "POST", "PUT"}
Paths == {"/healthcheck", "/images"}

\* route_parser.test(path): the route a path stands for.
RouteTest(path) == IF path = "/images" THEN "Images" ELSE "None"

\* A match that looks at the route only, whatever the method.
MatchRouteAnyMethod(method, path) ==
    IF RouteTest(path) = "Images" THEN "images" ELSE "fallback"
\* The match at the head of ControllerImpl::call.
MatchRoute(method, path) ==
    IF method = "POST" /\ RouteTest(path) = "Images" THEN "images" ELSE "fallback"

\* ------------------------------------------------------------------ tokens
\* The Authorization header of a request.  A Bearer header carries a JWT, of
\* which the verifier looks at the algorithm, the signature and exp.
NoAuth == [scheme |-> "none", alg |-> "none", signed |-> FALSE, exp |-> 0]
Bearer(alg, signed, exp) == [scheme |-> "Bearer", alg |-> alg, signed |-> signed, exp |-> exp]
GoodToken == Bearer("RS256", TRUE, Now + 1)
StaleToken == Bearer("RS256", TRUE, Now - Leeway - 1)
ForgedToken == Bearer("RS256", FALSE, Now + 1)
HmacToken == Bearer("HS256", TRUE, Now + 1)
AuthPool == {NoAuth, GoodToken, StaleToken, ForgedToken, HmacToken}

\* A validation that also refuses the token whose exp is exactly at the
\* edge of the leeway.
decode_strict(token, leeway, clock) ==
    /\ token.alg = "RS256"
    /\ token.signed
    /\ token.exp > clock - leeway
\* jsonwebtoken::decode with Validation { leeway, ..Validation::new(RS256) }.
decode(token, leeway, clock) ==
    /\ token.alg = "RS256"
    /\ token.signed
    /\ token.exp >= clock - leeway

\* A verifier whose Validation does not validate exp.
verify_token_no_exp(auth, leeway, clock) ==
    IF auth.scheme # "Bearer"
    THEN Err(<<"Unauthorized", "Missing token">>)
    ELSE IF auth.alg = "RS256" /\ auth.signed
         THEN Ok([exp |-> auth.exp])
         ELSE Err(<<"Unauthorized", "Failed to parse JWT token">>)

\* verify_token: the Bearer header, then the decoded claims; either failure
\* is Error::Unauthorized.
verify_token(auth, leeway, clock) ==
    IF auth.scheme # "Bearer"
    THEN Err(<<"Unauthorized", "Missing token">>)
    ELSE IF decode(auth, leeway, clock)
         THEN Ok([exp |-> auth.exp])
         ELSE Err(<<"Unauthorized", "Failed to parse JWT token">>)

\* ------------------------------------------------------------------ body
RECURSIVE read_bytes(_)
\* A fold that replaces the accumulator by each chunk instead of extending it.
read_bytes_last_chunk(chunks) ==
    IF chunks = <<>> THEN <<>> ELSE chunks[Len(chunks)]
\* read_bytes: fold the chunks of the body into one buffer.
read_bytes(chunks) ==
    IF chunks = <<>> THEN <<>>
    ELSE Head(chunks) \o read_bytes(Tail(chunks))

\* multipart_boundary of the wrapped request: Multipart::from_request needs
\* a Content-Type that names a boundary; it does not look at the body.
from_request(boundary) ==
    IF boundary THEN Ok(<<>>) ELSE Err(<<"Parse", "Couldn't convert request body to multipart">>)

\* A push that records the field twice.
PushFileTwice(files, data) == files \o <<data, data>>
\* files.push(file_data)
PushFile(files, data) == Append(files, data)

\* The bytes of a field: everything up to the next delimiter or the end.
RECURSIVE FieldData(_)
FieldData(w) ==
    IF w = <<>> \/ Head(w) \in {DELIM, CLOSE} THEN <<>>
    ELSE <<Head(w)>> \o FieldData(Tail(w))

\* foreach_entry over the buffer, pushing each field's bytes.  An entry
\* starts at a delimiter; the closing delimiter ends the iteration; a buffer
\* that ends before it makes the field's read fail (ignored: the bytes read
\* so far are pushed) and then the iteration itself.
RECURSIVE foreach_entry(_, _)
RECURSIVE foreach_entry_lenient(_, _)
\* An iteration that takes the end of the buffer for the end of the body.
foreach_entry_lenient(w, files) ==
    IF w = <<>> \/ Head(w) = CLOSE THEN Ok(files)
    ELSE IF Head(w) = DELIM
         THEN LET data == FieldData(Tail(w))
              IN foreach_entry_lenient(SubSeq(w, Len(data) + 2, Len(w)), PushFile(files, data))
         ELSE Err(<<"Parse", "Parsed multipart, could not iterate over entries">>)
foreach_entry(w, files) ==
    IF w = <<>> THEN Err(<<"Parse", "Parsed multipart, could not iterate over entries">>)
    ELSE IF Head(w) = CLOSE THEN Ok(files)
    ELSE IF Head(w) = DELIM
         THEN LET data == FieldData(Tail(w))
              IN foreach_entry(SubSeq(w, Len(data) + 2, Len(w)), PushFile(files, data))
         ELSE Err(<<"Parse", "Parsed multipart, could not iterate over entries">>)

\* ------------------------------------------------------------------ images
\* image::guess_format: the format whose signature the bytes start with.
guess_format(file) ==
    IF IsPrefix(PNG_MAGIC, file) THEN Ok("png")
    ELSE IF IsPrefix(JPEG_MAGIC, file) THEN Ok("jpg")
    ELSE IF IsPrefix(GIF_MAGIC, file) THEN Ok("gif")
    ELSE Err(<<"ImageError">>)

\* A detection that lets unrecognised bytes through as an opaque format.
DetectPartLenient(file) ==
    LET g == guess_format(file)
    IN IF g.ok THEN Ok([format |-> g.value, data |-> file])
       ELSE Ok([format |-> "bin", data |-> file])
\* The first and_then of the stream: guess_format, its error put under
\* "Invalid image format" and Error::Image.
DetectPart(file) ==
    LET g == guess_format(file)
    IN IF g.ok THEN Ok([format |-> g.value, data |-> file])
       ELSE Err(<<"Image", "Invalid image format">> \o g.err)

\* ------------------------------------------------------------------ store
\* The store adapter's answers to one upload_image call.
StoreOutcomes == {"ok", "s3_4xx", "s3_5xx", "transport"}

\* upload_image's own result: the URL of the new object, or the adapter's
\* error (Image for an object the store rejected, Internal otherwise).
Url(key, format) == [key |-> key, ext |-> format]
upload_image(outcome, key, format) ==
    CASE outcome = "ok" -> Ok(Url(key, format))
      [] outcome = "s3_4xx" -> Err(<<"Image", "S3 rejected the object">>)
      [] OTHER -> Err(<<"Internal", "S3 unavailable">>)

\* An upload step that swallows the store's error and goes on.
UploadStepSwallow(res) ==
    IF res.ok THEN Ok([url |-> res.value]) ELSE Ok([url |-> Url(0, "none")])
\* The second and_then of the stream: the URL becomes {"url": name}, an
\* error is put under Error::Image.
UploadStep(res) ==
    IF res.ok THEN Ok([url |-> res.value])
    ELSE Err(<<"Image">> \o res.err)

JsonObject(v) == [kind |-> "object", items |-> <<v>>]
JsonArray(vs) == [kind |-> "array", items |-> vs]
\* An assembly that answers an array for any number of images.
AssembleAlwaysArray(uploaded_images) == Ok(JsonArray(uploaded_images))
\* The closure after collect(): one image is answered as an object, any
\* other number as an array.
AssembleResponse(uploaded_images) ==
    IF Len(uploaded_images) = 1
    THEN IF uploaded_images # <<>>
         THEN Ok(JsonObject(Head(uploaded_images)))
         ELSE Err(<<"No images were sent">>)
    ELSE Ok(JsonArray(uploaded_images))

\* ------------------------------------------------------------------ state
VARIABLES
    reqs,      \* request slot -> the request and how far its future has run
    store,     \* the objects in the bucket
    keygen,    \* object keys handed out so far
    server     \* start_server: how far it has run, calls of its callback

vars == <<reqs, store, keygen, server>>

\* The event loop is running: core.run has been entered and has not returned.
Running == server.phase = "listening"

NoPending == [key |-> 0, format |-> "", data |-> <<>>]
NoResp == [status |-> 0, kind |-> "none", items |-> <<>>, error |-> "", acao |-> ""]

IdleReq ==
    [ phase |-> "Idle", method |-> "", path |-> "", auth |-> NoAuth, boundary |-> FALSE,
      leeway |-> 0, clock |-> 0,
      body |-> "unread", sent |-> <<>>, framed |-> FALSE, bytes |-> <<>>,
      files |-> <<>>, idx |-> 0, pending |-> NoPending, failedAt |-> "",
      uploaded |-> <<>>, cause |-> <<>>, resp |-> NoResp, reported |-> FALSE ]

\* The server in service: the listener bound, the callback run.
Init ==
    /\ reqs = [r \in Requests |-> IdleReq]
    /\ store = {}
    /\ keygen = 0
    /\ server = [phase |-> "listening", called |-> 1]

\* The kind of errors::Error a chain is answered as.
RECURSIVE ErrorName(_)
ErrorName(chain) ==
    IF chain = <<>> THEN "Internal"
    ELSE IF Head(chain) \in ErrorKinds THEN Head(chain)
    ELSE ErrorName(Tail(chain))

\* The application around the controller: a value becomes a 200 with the
\* JSON, an error the JSON envelope of its code.
Render(result) ==
    IF result.ok
    THEN [status |-> 200, kind |-> result.value.kind, items |-> result.value.items,
          error |-> "", acao |-> ""]
    ELSE [status |-> ErrorCode(result.err), kind |-> "error", items |-> <<>>,
          error |-> ErrorName(result.err), acao |-> ""]

\* A middleware that decorates the successful responses only.
middleware_on_success(rsp) ==
    IF rsp.status = 200 THEN [rsp EXCEPT !.acao = Acao] ELSE rsp
\* The middleware start_server installs: rsp.with_header(AccessControlAllowOrigin).
middleware(rsp) == [rsp EXCEPT !.acao = Acao]

\* A condition that reports every server-side status.
ShouldReportAny5xx(code) == code >= 500
\* The map_err at the end of call: log_and_capture_error when the code is 500.
ShouldReport(code) == code = 500

\* An end of call that sends the error and lets the request's future go on.
FinishAndGoOn(rq, result) ==
    [rq EXCEPT !.phase = IF result.ok THEN "Responded" ELSE rq.phase,
               !.pending = NoPending,
               !.cause = result.err,
               !.resp = middleware(Render(result)),
               !.reported = (~result.ok /\ ShouldReport(ErrorCode(result.err)))]
\* The end of call and the application around it: the error, if it is one,
\* goes to the telemetry sink when ShouldReport says so and is handed on as
\* it is; the result is rendered and passes the middleware.
Finish(rq, result) ==
    [rq EXCEPT !.phase = IF result.ok THEN "Responded" ELSE "Failed",
               !.pending = NoPending,
               !.cause = result.err,
               !.resp = middleware(Render(result)),
               !.reported = (~result.ok /\ ShouldReport(ErrorCode(result.err)))]

\* ------------------------------------------------------------------ actions
\* A request head arrives and ControllerImpl::call runs up to its first
\* suspension: the route is matched and, for POST /images, the token is
\* verified inline.
CallWith(r, method, path, auth, boundary, leeway, clock) ==
    /\ Running
    /\ reqs[r].phase = "Idle"
    /\ \A q \in Requests : q < r => reqs[q].phase # "Idle"
    /\ LET rq == [IdleReq EXCEPT !.method = method, !.path = path, !.auth = auth,
                                 !.boundary = boundary, !.leeway = leeway, !.clock = clock]
       IN reqs' = [reqs EXCEPT ![r] =
            IF MatchRoute(method, path) = "fallback"
            THEN Finish([rq EXCEPT !.failedAt = "route"], Err(<<"NotFound">>))
            ELSE IF verify_token(auth, leeway, clock).ok
                 THEN [rq EXCEPT !.phase = "Authenticated"]
                 ELSE Finish([rq EXCEPT !.failedAt = "auth"], verify_token(auth, leeway, clock))]
    /\ UNCHANGED <<store, keygen, server>>

\* A request of the main specification: any method, path and header, the
\* configured leeway, the clock at Now.
Call(r) ==
    \E method \in Methods, path \in Paths, auth \in AuthPool, boundary \in BOOLEAN :
        CallWith(r, method, path, auth, boundary, Leeway, Now)

\* The body stream ends: read_bytes has folded its chunks.
ReadBody(r) ==
    /\ Running
    /\ reqs[r].phase = "Authenticated"
    /\ \E b \in Bodies : \E chunks \in Chunkings(b.wire) :
         reqs' = [reqs EXCEPT ![r] =
             [@ EXCEPT !.phase = "Buffered", !.body = "read", !.sent = b.sent,
                       !.framed = b.framed, !.bytes = read_bytes(chunks)]]
    /\ UNCHANGED <<store, keygen, server>>

\* The body stream fails: the request ends with Network.
ReadBodyFails(r) ==
    /\ Running
    /\ reqs[r].phase = "Authenticated"
    /\ reqs' = [reqs EXCEPT ![r] =
           Finish([@ EXCEPT !.body = "failed", !.failedAt = "read"],
                  Err(<<"Network", "Failed to read request body", "hyper::Error">>))]
    /\ UNCHANGED <<store, keygen, server>>

\* Multipart::from_request, then foreach_entry collecting the files.
ParseBody(r) ==
    /\ Running
    /\ reqs[r].phase = "Buffered"
    /\ LET rq == reqs[r]
           mp == from_request(rq.boundary)
           fs == foreach_entry(rq.bytes, <<>>)
       IN reqs' = [reqs EXCEPT ![r] =
            IF ~mp.ok THEN Finish([rq EXCEPT !.failedAt = "parse"], mp)
            ELSE IF ~fs.ok THEN Finish([rq EXCEPT !.failedAt = "parse"], fs)
            ELSE [rq EXCEPT !.phase = "Parsed", !.files = fs.value]]
    /\ UNCHANGED <<store, keygen, server>>

\* A collection shared by the requests: what every request has uploaded so
\* far, in the order of the slots.
RECURSIVE UploadedIn(_, _)
UploadedIn(rqs, S) ==
    IF S = {} THEN <<>>
    ELSE LET q == CHOOSE x \in S : \A y \in S : x <= y
         IN rqs[q].uploaded \o UploadedIn(rqs, S \ {q})
CollectedShared(rqs, r) == UploadedIn(rqs, DOMAIN rqs)
\* collect(): the values of this request's stream, in its order.  The
\* stream, its closures and the vector are owned by the request's future.
Collected(rqs, r) == rqs[r].uploaded

\* The stream is polled for its next item: the next file goes through
\* guess_format and, recognised, into an upload_image call, which takes a
\* new key; with no file left, collect() ends and the answer is assembled.
NextPart(r) ==
    /\ Running
    /\ reqs[r].phase \in {"Parsed", "Uploading"}
    /\ reqs[r].pending = NoPending
    /\ LET rq == reqs[r]
       IN IF rq.idx = Len(rq.files)
          THEN /\ reqs' = [reqs EXCEPT ![r] = Finish(rq, AssembleResponse(Collected(reqs, r)))]
               /\ UNCHANGED keygen
          ELSE LET d == DetectPart(rq.files[rq.idx + 1])
               IN IF d.ok
                  THEN /\ reqs' = [reqs EXCEPT ![r] =
                             [rq EXCEPT !.phase = "Uploading", !.idx = rq.idx + 1,
                                        !.pending = [key |-> keygen + 1,
                                                     format |-> d.value.format,
                                                     data |-> d.value.data]]]
                       /\ keygen' = keygen + 1
                  ELSE /\ reqs' = [reqs EXCEPT ![r] =
                             Finish([rq EXCEPT !.idx = rq.idx + 1, !.failedAt = "detect"], d)]
                       /\ UNCHANGED keygen
    /\ UNCHANGED <<store, server>>

\* The bucket after an upload_image call: one new object when the call
\* succeeded, nothing otherwise.
PutObject(st, outcome, obj) ==
    IF outcome = "ok" THEN st \cup {obj} ELSE st

\* The store answers the upload_image call in flight.
UploadReturn(r) ==
    /\ Running
    /\ reqs[r].phase = "Uploading"
    /\ reqs[r].pending # NoPending
    /\ \E outcome \in StoreOutcomes :
         LET rq == reqs[r]
             p == rq.pending
             res == UploadStep(upload_image(outcome, p.key, p.format))
         IN /\ store' = PutObject(store, outcome,
                          [key |-> p.key, format |-> p.format, bytes |-> p.data,
                           req |-> r, part |-> rq.idx])
            /\ reqs' = [reqs EXCEPT ![r] =
                 IF res.ok
                 THEN [rq EXCEPT !.pending = NoPending,
                                 !.uploaded = Append(rq.uploaded, res.value)]
                 ELSE Finish([rq EXCEPT !.failedAt = outcome], res)]
    /\ UNCHANGED <<keygen, server>>

Next ==
    \E r \in Requests :
        \/ Call(r)
        \/ ReadBody(r)
        \/ ReadBodyFails(r)
        \/ ParseBody(r)
        \/ NextPart(r)
        \/ UploadReturn(r)

Spec == Init /\ [][Next]_vars

\* ------------------------------------------------------------------ server
\* start_server from its first line.  Http::serve_addr_handle binds the
\* listener or the process exits with 1; the accept loop and the callback
\* are spawned on the core, and core.run drives them until Ctrl+C.
InitServer ==
    /\ reqs = [r \in Requests |-> IdleReq]
    /\ store = {}
    /\ keygen = 0
    /\ server = [phase |-> "init", called |-> 0]

Bind ==
    /\ server.phase = "init"
    /\ server' = [server EXCEPT !.phase = "listening"]
    /\ UNCHANGED <<reqs, store, keygen>>

BindFails ==
    /\ server.phase = "init"
    /\ server' = [server EXCEPT !.phase = "exited"]
    /\ UNCHANGED <<reqs, store, keygen>>

\* A request whose answer is out: the handler's future has resolved.
Answered(rq) == rq.phase \in {"Responded", "Failed"}
\* A request whose future has returned NotReady: it waits for its body or
\* for the store's answer to an upload_image call.
Suspended(rq) ==
    \/ rq.phase = "Authenticated"
    \/ rq.phase = "Uploading" /\ rq.pending # NoPending

\* A callback that is run whether or not the listener is bound.
CallbackReadyUnbound(srv) == srv.phase \in {"init", "listening"} /\ srv.called = 0
\* The spawn_fn task: queued once after the listener is bound, run by the
\* loop; an FnOnce, it is consumed by its call.
CallbackReady(srv) == srv.phase = "listening" /\ srv.called = 0

Callback ==
    /\ CallbackReady(server)
    /\ server' = [server EXCEPT !.called = server.called + 1]
    /\ UNCHANGED <<reqs, store, keygen>>

\* Ctrl+C: the future given to core.run completes, run returns and
\* start_server with it; the core and every task spawned on it are dropped.
\* The tasks spawned before run are polled in the loop's first turn, before
\* the signal future can complete, so the callback has run by then.  The
\* loop has one thread: run returns between two polls, never inside one, so
\* a request is cut off where it is suspended (Suspended) and nowhere else.
Sigint ==
    /\ Running
    /\ server.called = 1
    /\ \A r \in Requests : reqs[r].phase = "Idle" \/ Answered(reqs[r]) \/ Suspended(reqs[r])
    /\ server' = [server EXCEPT !.phase = "stopped"]
    /\ UNCHANGED <<reqs, store, keygen>>

\* The steps a request in flight takes once it is accepted.
Step(r) ==
    \/ ReadBody(r)
    \/ ReadBodyFails(r)
    \/ ParseBody(r)
    \/ NextPart(r)
    \/ UploadReturn(r)

NextServer ==
    \/ Bind
    \/ BindFails
    \/ Callback
    \/ Sigint
    \/ \E r \in Requests : Call(r) \/ Step(r)

SpecServer == InitServer /\ [][NextServer]_vars

\* The start of the server seen from a client: start_server's own steps and
\* the requests it accepts, each followed up to its first suspension inside
\* call.  What becomes of an accepted request does not touch the server.
NextStart ==
    \/ Bind
    \/ BindFails
    \/ Callback
    \/ Sigint
    \/ \E r \in Requests : Call(r)

\* The loop polls the callback task, which is ready from the moment it is
\* spawned.
FairStart == InitServer /\ [][NextStart]_vars /\ WF_vars(Callback)

\* The loop polls every task that is ready: the callback task, and each
\* request whose body or store call has completed.
FairServer ==
    /\ SpecServer
    /\ WF_vars(Callback)
    /\ \A r \in Requests : WF_vars(Step(r))

\* The server in service and never stopped, its loop polling every request
\* that is ready.
FairRunning == Spec /\ \A r \in Requests : WF_vars(Step(r))

\* ------------------------------------------------------------------ units
\* The end of call for whatever its inner future resolves with: a value, or
\* an error chain of up to MaxContexts contexts, each a kind of
\* errors::Error or a plain message.
Contexts == ErrorKinds \cup {"message"}
Outcomes ==
    {Ok(JsonArray(<<>>)), Ok(JsonObject([url |-> Url(1, "png")]))}
    \cup {Err(c) : c \in SeqsUpTo(Contexts, MaxContexts) \ {<<>>}}

ResolveAny(r) ==
    /\ Running
    /\ reqs[r].phase = "Idle"
    /\ \A q \in Requests : q < r => reqs[q].phase # "Idle"
    /\ \E result \in Outcomes :
         reqs' = [reqs EXCEPT ![r] =
             Finish([IdleReq EXCEPT !.method = "POST", !.path = "/images"], result)]
    /\ UNCHANGED <<store, keygen, server>>

NextOutcome == \E r \in Requests : ResolveAny(r)
SpecOutcome == Init /\ [][NextOutcome]_vars

\* verify_token on a correctly signed RS256 token, for any exp, any clock and
\* any configured leeway within the bounds.
VerifyAny(r) ==
    \E exp \in 0..MaxExp, clock \in 0..MaxClock, leeway \in 0..MaxLeeway :
        CallWith(r, "POST", "/images", Bearer("RS256", TRUE, exp), TRUE, leeway, clock)

NextToken == \E r \in Requests : VerifyAny(r)
SpecToken == Init /\ [][NextToken]_vars

\* ------------------------------------------------------------------ claims
IsUpload(rq) == rq.method = "POST" /\ rq.path = "/images"
IsHealthcheck(rq) == rq.method = "GET" /\ rq.path = "/healthcheck"
ObjectsOf(r) == {o \in store : o.req = r}
Recognizable(bytes) ==
    IsPrefix(PNG_MAGIC, bytes) \/ IsPrefix(JPEG_MAGIC, bytes) \/ IsPrefix(GIF_MAGIC, bytes)

\* A header that must not authenticate: none, a token of another algorithm,
\* a bad signature, or an exp that lies further back than the leeway.
BadAuth(a) ==
    \/ a.scheme # "Bearer"
    \/ a.alg # "RS256"
    \/ ~a.signed
    \/ a.exp + Leeway < Now

\* C1: a POST /images without a valid token (no Authorization header, an
\* expired or otherwise invalid JWT) is answered 401; its body is never read
\* and nothing is stored for it.
C1_BadTokenIs401 ==
    \A r \in Requests :
        LET rq == reqs[r]
        IN (rq.phase # "Idle" /\ IsUpload(rq) /\ BadAuth(rq.auth))
           => /\ rq.phase = "Failed"
              /\ rq.resp.status = 401
              /\ rq.resp.error = "Unauthorized"
              /\ rq.body = "unread"
              /\ ObjectsOf(r) = {}

\* C1 witness: an expired token and a missing header have both been refused.
C1_Witness ==
    \E r, q \in Requests :
        /\ IsUpload(reqs[r]) /\ reqs[r].auth = StaleToken /\ reqs[r].resp.status = 401
        /\ IsUpload(reqs[q]) /\ reqs[q].auth = NoAuth /\ reqs[q].resp.status = 401

\* C2: a successful upload of N >= 1 parts answers one {"url": ...} object
\* when N = 1 and an array of N of them when N > 1, the i-th being the URL of
\* the object stored for the i-th part.
C2_ResponseShape ==
    \A r \in Requests :
        LET rq == reqs[r]
            n == Len(rq.sent)
        IN (rq.phase = "Responded" /\ n >= 1)
           => /\ rq.resp.status = 200
              /\ rq.resp.kind = IF n = 1 THEN "object" ELSE "array"
              /\ Len(rq.resp.items) = n
              /\ \A i \in 1..n :
                    \E o \in ObjectsOf(r) :
                        /\ o.part = i
                        /\ rq.resp.items[i] = [url |-> Url(o.key, o.format)]

\* C2 witness: one request answered for one part, another for two.
C2_Witness ==
    \E r, q \in Requests :
        /\ reqs[r].phase = "Responded" /\ Len(reqs[r].sent) = 1
        /\ reqs[q].phase = "Responded" /\ Len(reqs[q].sent) = 2

\* C3 (as claimed): an authenticated POST /images whose multipart body has
\* no part never ends in a 200.
C3_ZeroPartsFails ==
    \A r \in Requests :
        LET rq == reqs[r]
        IN (Answered(rq) /\ rq.body = "read" /\ rq.framed /\ rq.boundary /\ rq.sent = <<>>)
           => rq.resp.status # 200

\* C4: an authenticated upload with a part that is no recognizable image is
\* never answered with success: its answer is a 400 without any URL,
\* whatever the other parts are and whatever the store said for them.
C4_BadPartIs400 ==
    \A r \in Requests :
        LET rq == reqs[r]
        IN (rq.body = "read" /\ rq.framed /\ \E i \in 1..Len(rq.sent) : ~Recognizable(rq.sent[i]))
           => /\ rq.phase # "Responded"
              /\ Answered(rq) => /\ rq.resp.status = 400
                                 /\ rq.resp.kind = "error"
                                 /\ rq.resp.items = <<>>

\* C4 witness: the second part was refused after the first one was stored.
C4_Witness ==
    \E r \in Requests :
        /\ reqs[r].sent = <<PngA, Hello>>
        /\ reqs[r].failedAt = "detect"
        /\ reqs[r].resp.status = 400
        /\ ObjectsOf(r) # {}

\* C5 (as claimed): GET /healthcheck is answered 200 with the body ok.
C5_HealthcheckOk ==
    \A r \in Requests :
        (reqs[r].phase # "Idle" /\ IsHealthcheck(reqs[r]))
        => reqs[r].resp.status = 200 /\ reqs[r].resp.kind = "ok"

\* C6: a request that is neither GET /healthcheck nor POST /images is
\* answered 404, whatever its Authorization header; its body is not read and
\* nothing is stored for it.
C6_OtherRoutes404 ==
    \A r \in Requests :
        LET rq == reqs[r]
        IN (rq.phase # "Idle" /\ ~IsHealthcheck(rq) /\ ~IsUpload(rq))
           => /\ rq.phase = "Failed"
              /\ rq.resp.status = 404
              /\ rq.body = "unread"
              /\ ObjectsOf(r) = {}

\* C6 witness: PUT /images with a valid token and GET /images without one.
C6_Witness ==
    \E r, q \in Requests :
        /\ reqs[r].method = "PUT" /\ reqs[r].path = "/images"
        /\ reqs[r].auth = GoodToken /\ reqs[r].resp.status = 404
        /\ reqs[q].method = "GET" /\ reqs[q].path = "/images"
        /\ reqs[q].auth = NoAuth /\ reqs[q].resp.status = 404

\* C7 (as claimed): a failed upload_image ends the request with Image (400)
\* when the store rejected the object, with Internal (500) when the store
\* answered 5xx or the transport failed.
C7_StoreFailureKinds ==
    \A r \in Requests :
        LET rq == reqs[r]
        IN /\ rq.failedAt = "s3_4xx" => (rq.resp.status = 400 /\ rq.resp.error = "Image")
           /\ rq.failedAt \in {"s3_5xx", "transport"}
                 => (rq.resp.status = 500 /\ rq.resp.error = "Internal")

\* C8: no partial success.  A success answer means every part has its
\* object; when detection or upload of part k fails, the answer is an error
\* without URL, the objects of parts 1..k-1 are in the store and stay there,
\* and there is none for part k or a later part.
C8_NoPartialSuccess ==
    \A r \in Requests :
        LET rq == reqs[r]
            k == rq.idx
        IN /\ rq.phase = "Responded"
                => \A i \in 1..Len(rq.files) : \E o \in ObjectsOf(r) : o.part = i
           /\ (rq.phase = "Failed" /\ rq.failedAt \in {"detect"} \cup (StoreOutcomes \ {"ok"}))
                => /\ rq.resp.status # 200
                   /\ rq.resp.kind = "error"
                   /\ rq.resp.items = <<>>
                   /\ \A i \in 1..(k - 1) :
                         \E o \in ObjectsOf(r) : o.part = i /\ o.bytes = rq.files[i]
                   /\ \A o \in ObjectsOf(r) : o.part < k

\* C8 witness: the upload of the second of two parts failed, the first
\* part's object is in the store.
C8_Witness ==
    \E r \in Requests :
        /\ reqs[r].phase = "Failed"
        /\ reqs[r].failedAt = "s3_5xx"
        /\ reqs[r].idx = 2
        /\ \E o \in ObjectsOf(r) : o.part = 1

\* C9: after a success, each returned URL names exactly one object of the
\* store, and that object holds the bytes of the corresponding part as the
\* client sent them.
C9_ExactBytes ==
    \A r \in Requests :
        LET rq == reqs[r]
        IN rq.phase = "Responded"
           => /\ Len(rq.resp.items) = Len(rq.sent)
              /\ \A i \in 1..Len(rq.sent) :
                    LET hits == {o \in store : Url(o.key, o.format) = rq.resp.items[i].url}
                    IN /\ Cardinality(hits) = 1
                       /\ \A o \in hits : o.bytes = rq.sent[i]

\* C9 witness: two different images were stored for one request.
C9_Witness ==
    \E r \in Requests :
        /\ reqs[r].phase = "Responded"
        /\ reqs[r].sent = <<PngA, JpegA>>

RECURSIVE UploadedBy(_)
UploadedBy(S) ==
    IF S = {} THEN 0
    ELSE LET r == CHOOSE x \in S : TRUE
         IN Len(reqs[r].uploaded) + UploadedBy(S \ {r})

\* C10: a successful upload of N parts has added exactly N objects, and the
\* store holds one object per completed upload_image call and no other.
C10_OneObjectPerPart ==
    /\ \A r \in Requests :
          reqs[r].phase = "Responded" => Cardinality(ObjectsOf(r)) = Len(reqs[r].sent)
    /\ Cardinality(store) = UploadedBy(Requests)
    /\ Cardinality({o.key : o \in store}) = Cardinality(store)

\* C10 witness: two requests of two parts each have left four objects.
C10_Witness ==
    /\ \A r \in Requests : reqs[r].phase = "Responded" /\ Len(reqs[r].sent) = 2
    /\ Cardinality(store) = 4

\* C12: every response the server sends carries the configured
\* Access-Control-Allow-Origin value: successes, the 404 of the fallback and
\* every other error alike.
C12_AcaoOnEveryResponse ==
    \A r \in Requests :
        reqs[r].resp # NoResp => reqs[r].resp.acao = Acao

\* C12 witness: a success and a 404 have both been sent with the header.
C12_Witness ==
    \E r, q \in Requests :
        /\ reqs[r].resp.status = 200 /\ reqs[r].resp.acao = Acao
        /\ reqs[q].resp.status = 404 /\ reqs[q].resp.acao = Acao

\* C13: an error goes to the telemetry sink exactly when it is answered
\* with status 500; no 4xx, no 502 and no success is reported, and the
\* answer is the one of the error as it was raised, reported or not.
C13_ReportedIff500 ==
    \A r \in Requests :
        LET rq == reqs[r]
        IN Answered(rq)
           => /\ rq.reported <=> (rq.resp.status = 500)
              /\ rq.phase = "Responded" => ~rq.reported
              /\ rq.phase = "Failed"
                    => /\ rq.resp.status = ErrorCode(rq.cause)
                       /\ rq.resp.error = ErrorName(rq.cause)

\* C13 witness: an Internal error was reported, an Image error was not.
C13_Witness ==
    \E r, q \in Requests :
        /\ reqs[r].resp.status = 500 /\ reqs[r].reported
        /\ reqs[q].resp.status = 400 /\ ~reqs[q].reported

\* C14: verify_token accepts a correctly signed RS256 token when
\* exp + leeway >= now and refuses it with Unauthorized when exp + leeway < now.
C14_LeewayWindow ==
    \A r \in Requests :
        LET rq == reqs[r]
        IN rq.phase # "Idle"
           => /\ rq.auth.exp + rq.leeway >= rq.clock => rq.phase = "Authenticated"
              /\ rq.auth.exp + rq.leeway < rq.clock
                    => /\ rq.phase = "Failed"
                       /\ rq.resp.status = 401
                       /\ rq.resp.error = "Unauthorized"

\* C14 witness: a token at the very edge of the leeway was accepted, one a
\* second older was refused.
C14_Witness ==
    \E r, q \in Requests :
        /\ reqs[r].leeway > 0
        /\ reqs[r].auth.exp + reqs[r].leeway = reqs[r].clock
        /\ reqs[r].phase = "Authenticated"
        /\ reqs[q].leeway > 0
        /\ reqs[q].auth.exp + reqs[q].leeway + 1 = reqs[q].clock
        /\ reqs[q].phase = "Failed"

InFlight(rq) == rq.phase # "Idle" /\ ~Answered(rq)

\* C15 (as claimed): once SIGINT has stopped the server, no new request is
\* accepted and every request that was in flight can still take its next
\* step towards its response.
C15_GracefulShutdown ==
    server.phase = "stopped"
    => /\ \A r \in Requests : ~ENABLED Call(r)
       /\ \A r \in Requests : InFlight(reqs[r]) => ENABLED Step(r)

\* C16: the callback is called at most once, and only while the listener is
\* bound and the loop runs; after it a request is accepted as long as the
\* server has not been stopped; and once the listener is bound the callback
\* is eventually called.
C16_CallbackOnceWhenBound ==
    /\ [](server.called <= 1)
    /\ [](server.called = 1 => server.phase \in {"listening", "stopped"})
    /\ []((server.called = 1 /\ server.phase # "stopped" /\ reqs[1].phase = "Idle")
             => ENABLED Call(1))
    /\ (server.phase = "listening") ~> (server.called = 1)

\* C16 witness: the callback has run once on the listening server, and an
\* upload sent to it has been accepted and authenticated.
C16_Witness ==
    /\ server = [phase |-> "listening", called |-> 1]
    /\ \E r \in Requests : reqs[r].phase = "Authenticated"

Rank(phase) ==
    CASE phase = "Idle" -> 0
      [] phase = "Authenticated" -> 1
      [] phase = "Buffered" -> 2
      [] phase = "Parsed" -> 3
      [] phase = "Uploading" -> 4
      [] phase = "Responded" -> 5
      [] OTHER -> 6

\* C17: a request only moves one phase forward at a time (Received is the
\* moment inside call before the token is verified; a request without parts
\* goes from Parsed to Responded, with no upload) or to Failed.  The body is
\* read only by an authenticated request; an upload starts only with the
\* body read and the parts parsed; an object is written only while
\* Uploading; success comes only after the last part; and a request that has
\* its answer, an error or a success, never changes again and writes nothing.
C17_PhaseOrder ==
    [][\A r \in Requests :
          LET a == reqs[r]
              b == reqs'[r]
          IN /\ a.resp # NoResp => (b = a /\ ObjectsOf(r)' = ObjectsOf(r))
             /\ b.phase # a.phase
                   => \/ b.phase = "Failed"
                      \/ Rank(b.phase) = Rank(a.phase) + 1
                      \/ a.phase = "Parsed" /\ a.files = <<>> /\ b.phase = "Responded"
             /\ b.body # a.body => a.phase = "Authenticated"
             /\ (a.pending = NoPending /\ b.pending # NoPending)
                   => /\ a.phase \in {"Parsed", "Uploading"}
                      /\ a.body = "read"
                      /\ b.files = a.files
             /\ ObjectsOf(r)' # ObjectsOf(r) => (a.phase = "Uploading" /\ a.body = "read")
             /\ (a.phase # "Responded" /\ b.phase = "Responded") => a.idx = Len(a.files)
      ]_vars

\* C17 witness: one request went all the way to its answer for two parts,
\* another failed on its first part of two and left the second untouched.
C17_Witness ==
    \E r, q \in Requests :
        /\ reqs[r].phase = "Responded" /\ Len(reqs[r].files) = 2
        /\ reqs[q].phase = "Failed" /\ reqs[q].failedAt = "detect"
        /\ reqs[q].idx = 1 /\ Len(reqs[q].files) = 2
        /\ ObjectsOf(q) = {}

\* C18: an authenticated upload whose Content-Type names no boundary, or
\* whose body is not a complete multipart body, goes no further than the
\* parsing: it fails with Parse, status 400, and has no object in the store.
C18_UnparsableIs400 ==
    \A r \in Requests :
        LET rq == reqs[r]
        IN (rq.body = "read" /\ (~rq.boundary \/ ~rq.framed))
           => /\ rq.phase \in {"Buffered", "Failed"}
              /\ rq.phase = "Failed"
                    => /\ rq.failedAt = "parse"
                       /\ rq.resp.status = 400
                       /\ rq.resp.error = "Parse"
              /\ ObjectsOf(r) = {}

\* C18 witness: one request failed for its missing boundary, another for a
\* body that ends inside a part that holds an image.
C18_Witness ==
    \E r, q \in Requests :
        /\ ~reqs[r].boundary /\ reqs[r].framed /\ reqs[r].resp.error = "Parse"
        /\ reqs[q].boundary /\ ~reqs[q].framed /\ reqs[q].resp.error = "Parse"
        /\ reqs[q].bytes = <<DELIM>> \o PngA

\* C19: a successful response lists, in the order of the request's parts,
\* the URLs of the objects written for that request, and no URL in it names
\* an object written for another request.
C19_OwnUrlsOnly ==
    \A r \in Requests :
        LET rq == reqs[r]
        IN rq.phase = "Responded"
           => /\ Len(rq.resp.items) = Len(rq.sent)
              /\ \A i \in 1..Len(rq.resp.items) :
                    /\ \E o \in ObjectsOf(r) :
                          o.part = i /\ rq.resp.items[i].url = Url(o.key, o.format)
                    /\ \A o \in store :
                          rq.resp.items[i].url = Url(o.key, o.format) => o.req = r

\* C19 witness: two requests of two parts each were answered after their
\* uploads had interleaved: a key of one lies between the keys of the other.
C19_Witness ==
    \E r, q \in Requests :
        /\ r # q
        /\ reqs[r].phase = "Responded" /\ Len(reqs[r].sent) = 2
        /\ reqs[q].phase = "Responded" /\ Len(reqs[q].sent) = 2
        /\ \E o1, o2 \in ObjectsOf(r) : \E p \in ObjectsOf(q) :
              o1.key < p.key /\ p.key < o2.key

\* C20 (as claimed): every accepted request eventually has its answer, and
\* an answer, once given, is never followed by another.
C20_OneOutcomeEventually ==
    /\ \A r \in Requests : (reqs[r].phase # "Idle") ~> Answered(reqs[r])
    /\ [][\A r \in Requests : Answered(reqs[r]) => reqs'[r] = reqs[r]]_vars

====
